---- MODULE Spec2Model ----
(***************************************************************************)
(* Model of the Stepik video downloader:                                   *)
(*   src/stepik_dispatcher.py  StepikDispatcher (token exchange,           *)
(*                             authorized GET, get_resources_list and the  *)
(*                             five typed getters built on it)             *)
(*   src/downloader.py         get_course_videos_urls_by_section and main  *)
(*                                                                         *)
(* The program is single threaded and blocking, so its state changes only  *)
(* at its I/O events.  Every action below is one I/O event (a token POST,  *)
(* an authorized GET, the preparation of a week's folder, one video        *)
(* transfer) together with all the code that runs until the next one.      *)
(*                                                                         *)
(* Two specifications share the dispatcher's code:                         *)
(*   SpecFetch  one get_resources_list call against a server that may      *)
(*              answer every GET in any way (any status, any list, any     *)
(*              has_next flag);                                            *)
(*   Spec       a whole run of main() against a server that holds a        *)
(*              course and answers each GET with the records of the ids    *)
(*              asked for, page by page.                                   *)
(***************************************************************************)
EXTENDS Integers, Sequences, FiniteSets, TLC

(* ------------------------------ bounds --------------------------------- *)
\* SpecFetch: longest id list handed to get_resources_list.
MaxIds == 3
\* SpecFetch: GETs one get_resources_list call may issue before the model stops.
MaxGets == 5
\* SpecFetch: longest resource list in one server response.
MaxItems == 2
\* Spec: most sections (weeks) a course has.
MaxSections == 2
\* Spec: most transfers of one run that end in ContentTooShortError.
MaxShort == 1
MaxQualities == 3

(* ------------------------ program constants ---------------------------- *)
\* stepik_dispatcher.py: `case 200`
OK == 200
\* stepik_dispatcher.py: `case 401`
Unauthorized == 401
\* stepik_dispatcher.py: `case 431:  # large header error code`
HeaderTooLarge == 431
\* Statuses the code names nowhere: each falls into a `case _` branch.
OtherStatuses == {403, 500}
\* get_resources_list(..., page: int = 1)
FirstPage == 1

None == "None"
Tokens == {"tokA", "tokB"}
Resources == {"sections", "units", "lessons", "steps"}

NoError == [type |-> "None", api |-> "", status |-> 0]

VARIABLES
  course,    \* the course the server holds (fixed during a run)
  srv,       \* the server's page size and its limit on ids per request
  args,      \* the parsed command line: week_id (<<>> is None) and quality
  pc,        \* where the program is
  token,     \* StepikDispatcher.token (None before it is assigned)
  posts,     \* the token POSTs made so far with the server's answers, in order
  gets,      \* the authorized GETs made so far with their answers, in order
  api,       \* api_resource of the get_resources_list call in progress
  stack,     \* frames of the get_resources_list recursion, innermost last
  result,    \* value returned by the outermost get_resources_list call
  error,     \* the exception that ended the run, or NoError
  rs,        \* locals of get_course_videos_urls_by_section
  mn,        \* locals of main
  folders,   \* week folders that exist under output_dir/course_id
  made,      \* week folders os.makedirs created in this run, in order
  files,     \* existing video files: <<week, index>> -> content
  handled,   \* the videos main has dealt with, in order, with the outcome
  run,       \* which invocation of the program this is (1 or 2)
  before     \* what the first invocation left behind, once it is over

vars == <<course, srv, args, pc, token, posts, gets, api, stack, result, error,
          rs, mn, folders, made, files, handled, run, before>>

dispatcherVars == <<token, posts, gets, api, stack, result>>
resolverVars == <<rs>>
diskVars == <<folders, made, files, handled>>
inputVars == <<course, srv, args>>
runVars == <<run, before>>

\* `before` while the first invocation runs.
NoBefore == [over |-> FALSE, complete |-> FALSE, handled |-> <<>>, folders |-> {},
            files |-> <<>>]

(* -------------------- StepikDispatcher.get_resources_list -------------- *)
Min(a, b) == IF a < b THEN a ELSE b

RECURSIVE Flatten(_)
Flatten(ss) == IF ss = <<>> THEN <<>> ELSE Head(ss) \o Flatten(Tail(ss))

\* ids[:len(ids) // 2]
LeftHalf(ids) == SubSeq(ids, 1, Len(ids) \div 2)

\* ids[len(ids) // 2:]
\* (faulty variant: the right half takes the middle id of the left half too)
RightHalfFromMiddle(ids) ==
  SubSeq(ids, IF Len(ids) < 2 THEN 1 ELSE Len(ids) \div 2, Len(ids))
RightHalf(ids) == SubSeq(ids, (Len(ids) \div 2) + 1, Len(ids))

\* get_resources_list(left) + get_resources_list(right)
\* (faulty variant: right half first)
JoinHalvesSwapped(left, right) == right \o left
JoinHalves(left, right) == left \o right

\* resources_list += get_resources_list(api_resource, ids, page + 1)
\* (faulty variant: the later pages are fetched and dropped)
JoinPagesDropsRest(current, rest) == current
JoinPages(current, rest) == current \o rest

\* resources_list = paginated_list[api_resource]
\* (faulty variant: the page's list is taken back to front)
ParsedListReversed(resp) ==
  [k \in 1..Len(resp.items) |-> resp.items[Len(resp.items) + 1 - k]]
ParsedList(resp) == resp.items

\* The page of the two calls made on a 431: they pass no page, so that
\* `page: int = 1` applies whatever the page of the refused request was.
\* (faulty variant: the halves go on at the page that was refused)
SplitPageKeeps(page) == page
SplitPage(page) == FirstPage

\* A frame of get_resources_list(api_resource, ids, page).  `at` is the line
\* the frame stands at: "get" before its GET, "page" inside the recursive
\* call for the next page, "left"/"right" inside the call for a half.  `acc`
\* is what the frame holds while it waits (this page's list, the left half's
\* result).  `lo` is the offset of ids within the outermost call's id list;
\* the code does not have it, the properties read it.
Call(ids, page, lo) ==
  [ids |-> ids, page |-> page, at |-> "get", acc |-> <<>>, lo |-> lo]

\* A callee returned `value`: run the callers until one issues a GET or the
\* outermost call returns.
RECURSIVE Unwind(_, _)
Unwind(stk, value) ==
  IF stk = <<>> THEN [stack |-> <<>>, done |-> TRUE, value |-> value]
  ELSE LET top  == stk[Len(stk)]
           rest == SubSeq(stk, 1, Len(stk) - 1)
       IN CASE top.at = "page"  -> Unwind(rest, JoinPages(top.acc, value))
            [] top.at = "left"  ->
                 [stack |-> Append(rest, [top EXCEPT !.at = "right", !.acc = value])
                              \o <<Call(RightHalf(top.ids), SplitPage(top.page),
                                        top.lo + Len(LeftHalf(top.ids)))>>,
                  done |-> FALSE, value |-> <<>>]
            [] top.at = "right" -> Unwind(rest, JoinHalves(top.acc, value))

\* The `match response.status_code` of get_resources_list, for the innermost
\* frame.  `raised` is the ResourceAcquisitionFailure of `case _`.
\* (faulty variant: 403 is not taken for a failure)
RaisesOnlyOnServerError(status) == status \notin {OK, HeaderTooLarge, 403}
Raises(status) == status \notin {OK, HeaderTooLarge}

HandleResponse(stk, resp) ==
  LET top  == stk[Len(stk)]
      rest == SubSeq(stk, 1, Len(stk) - 1)
  IN  IF Raises(resp.status)
      THEN [stack |-> <<>>, done |-> FALSE, value |-> <<>>, raised |-> TRUE]
      ELSE IF resp.status = HeaderTooLarge
      THEN [stack |-> Append(rest, [top EXCEPT !.at = "left"])
                        \o <<Call(LeftHalf(top.ids), SplitPage(top.page), top.lo)>>,
            done |-> FALSE, value |-> <<>>, raised |-> FALSE]
      ELSE IF resp.has_next
      THEN [stack |-> Append(rest, [top EXCEPT !.at = "page", !.acc = ParsedList(resp)])
                        \o <<Call(top.ids, top.page + 1, top.lo)>>,
            done |-> FALSE, value |-> <<>>, raised |-> FALSE]
      ELSE Unwind(rest, ParsedList(resp)) @@ [raised |-> FALSE]

\* authorized_get: the GET as the server sees it, with the answer it gave.
\* (faulty variant: the Authorization header is left out)
RequestWithoutToken(resource, frame, tok, resp) ==
  [api |-> resource, ids |-> frame.ids, page |-> frame.page, token |-> None,
   lo |-> frame.lo, status |-> resp.status, items |-> resp.items,
   has_next |-> resp.has_next]
Request(resource, frame, tok, resp) ==
  [api |-> resource, ids |-> frame.ids, page |-> frame.page, token |-> tok,
   lo |-> frame.lo, status |-> resp.status, items |-> resp.items,
   has_next |-> resp.has_next]

ResourceAcquisitionFailure(resource, status) ==
  [type |-> "ResourceAcquisitionFailure", api |-> resource, status |-> status]

\* The locals of get_course_videos_urls_by_section and of main before they
\* are assigned.
NoLocals ==
  [week_ids |-> <<>>, all_unit_ids |-> <<>>, week_num |-> 0,
   all_lesson_ids |-> <<>>, all_step_ids |-> <<>>, videos_by_section |-> <<>>]
NoMain ==
  [returned |-> FALSE, videos |-> <<>>, week_num |-> 0, url_list_with_q |-> <<>>,
   video_num |-> 0]

(* ------------------------------ SpecFetch ------------------------------ *)
\* Any server: the n-th GET is answered with any status; a 200 carries a
\* list of 0..MaxItems resources, named <<n, 1>>, <<n, 2>>, ... so that every
\* resource of the run is distinct, and any has_next flag.
AnyResponses(n) ==
  { [status |-> OK, items |-> [j \in 1..m |-> <<n, j>>], has_next |-> h] :
      m \in 0..MaxItems, h \in BOOLEAN }
  \cup { [status |-> s, items |-> <<>>, has_next |-> FALSE] :
           s \in {HeaderTooLarge} \cup OtherStatuses }

InitFetch ==
  /\ pc = "fetch"
  /\ token \in Tokens
  /\ posts = <<[status |-> OK, access_token |-> token]>>
  /\ gets = <<>>
  /\ api \in {"units", "steps"}
  /\ \E n \in 0..MaxIds : stack = <<Call([i \in 1..n |-> i], FirstPage, 0)>>
  /\ result = <<>>
  /\ error = NoError
  /\ course = [nSections |-> 0, videoPos |-> {}, emptyUrls |-> FALSE]
  /\ srv = [pageSize |-> 1, limit |-> 1]
  /\ args = [week_id |-> <<>>, quality |-> "720"]
  /\ rs = NoLocals
  /\ mn = NoMain
  /\ folders = {}
  /\ made = <<>>
  /\ files = <<>>
  /\ handled = <<>>
  /\ run = 1
  /\ before = NoBefore

\* One GET of the call in progress, and the code up to the next GET.
FetchGet ==
  /\ pc = "fetch"
  /\ Len(gets) < MaxGets
  /\ \E resp \in AnyResponses(Len(gets) + 1) :
       LET top == stack[Len(stack)]
           out == HandleResponse(stack, resp)
       IN /\ gets' = Append(gets, Request(api, top, token, resp))
          /\ stack' = out.stack
          /\ IF out.raised
             THEN /\ pc' = "failed"
                  /\ error' = ResourceAcquisitionFailure(api, resp.status)
                  /\ result' = result
             ELSE /\ pc' = IF out.done THEN "returned" ELSE "fetch"
                  /\ error' = error
                  /\ result' = IF out.done THEN out.value ELSE result
  /\ UNCHANGED <<token, posts, api, rs, mn>>
  /\ UNCHANGED diskVars
  /\ UNCHANGED inputVars
  /\ UNCHANGED runVars

NextFetch == FetchGet

SpecFetch == InitFetch /\ [][NextFetch]_vars

(* ------------------------- the course on the server -------------------- *)
\* A course of course.nSections sections, in the shape of the platform's
\* tree.  Ids are built from the position, as in 10 -> 101 -> 1010 -> 10101:
\*   section 10*i           (i = 1, 2, ...: the i-th week)
\*   its units 100*i + j    (two units in odd weeks, one in even weeks)
\*   unit u's lesson 10*u   (one unit, one lesson)
\*   the lesson's steps 10*l + p   (two steps in a section's first lesson,
\*                                  one in its second; in even weeks one)
\* A step carries a video when its position p is in course.videoPos; with
\* course.emptyUrls the videos at position 2 have an empty urls list.
SectionIds(c) == [i \in 1..c.nSections |-> 10 * i]
UnitsOfSection(s) ==
  [j \in 1..(IF (s \div 10) % 2 = 1 THEN 2 ELSE 1) |-> 10 * s + j]
LessonOfUnit(u) == 10 * u
StepsOfLesson(l) ==
  [p \in 1..(IF ((l \div 1000) % 2 = 1) /\ ((l \div 10) % 10 = 1) THEN 2 ELSE 1)
     |-> 10 * l + p]
StepPos(st) == st % 10
HasVideo(c, st) == StepPos(st) \in c.videoPos

\* The quality labels a video offers, in the platform's order.  The url of
\* the k-th record of step st is named <<st, k>>.
LabelsOfStep(c, st) ==
  IF StepPos(st) = 1 THEN <<"360", "720">>
  ELSE IF c.emptyUrls THEN <<>>
  ELSE <<"1080", "720", "720">>
UrlsOfStep(c, st) ==
  LET labels == LabelsOfStep(c, st)
  IN  [k \in 1..Len(labels) |-> [quality |-> labels[k], url |-> <<st, k>>]]

\* The parsed JSON record of one resource.
Record(c, resource, id) ==
  CASE resource = "sections" -> [id |-> id, units |-> UnitsOfSection(id)]
    [] resource = "units"    -> [id |-> id, lesson |-> LessonOfUnit(id)]
    [] resource = "lessons"  -> [id |-> id, steps |-> StepsOfLesson(id)]
    [] resource = "steps"    ->
         [id |-> id,
          block |-> [video |-> IF HasVideo(c, id)
                               THEN [present |-> TRUE, urls |-> UrlsOfStep(c, id)]
                               ELSE [present |-> FALSE, urls |-> <<>>]]]

\* The server of Spec.  A request with more ids than srv.limit is answered
\* 431 (the ids travel in the request, whatever the page).  Any other request
\* is answered either with a status that is neither 200 nor 431, or with 200
\* and the page-th page of the records of the ids asked for, in their order,
\* srv.pageSize records a page, has_next telling whether records remain.
PageOf(c, resource, ids, page, size) ==
  LET first == (page - 1) * size + 1
      last  == Min(page * size, Len(ids))
  IN  [k \in 1..(IF last >= first THEN last - first + 1 ELSE 0)
         |-> Record(c, resource, ids[first + k - 1])]

ServerAnswers(c, s, resource, ids, page) ==
  IF Len(ids) > s.limit
  THEN {[status |-> HeaderTooLarge, items |-> <<>>, has_next |-> FALSE]}
  ELSE {[status |-> OK, items |-> PageOf(c, resource, ids, page, s.pageSize),
         has_next |-> page * s.pageSize < Len(ids)]}
       \cup {[status |-> st, items |-> <<>>, has_next |-> FALSE] : st \in OtherStatuses}

(* ---------------------- StepikDispatcher.__init__ ---------------------- *)
\* The `match resp.status_code` of the constructor: the exception raised, or
\* NoError when the token is stored.
\* (faulty variant: no `case 401`)
AuthOutcomeTreats401AsFailure(status) ==
  IF status = OK THEN NoError
  ELSE [type |-> "AuthenticationFailure", api |-> "token", status |-> status]
AuthOutcome(status) ==
  CASE status = OK           -> NoError
    [] status = Unauthorized -> [type |-> "WrongCredentials", api |-> "token",
                                 status |-> status]
    [] OTHER                 -> [type |-> "AuthenticationFailure", api |-> "token",
                                 status |-> status]

\* The token endpoint's answers: 200 with an access_token, or another status.
TokenAnswers ==
  {[status |-> OK, access_token |-> tok] : tok \in Tokens}
  \cup {[status |-> st, access_token |-> None] : st \in {Unauthorized} \cup OtherStatuses}

\* self.token = self.json_parser(resp.text)['access_token']
StoredToken(access_token) == access_token

\* main: stepik_dispatcher = StepikDispatcher(args.client_id, args.client_secret)
Construct ==
  /\ pc = "start"
  /\ \E resp \in TokenAnswers :
       LET outcome == AuthOutcome(resp.status)
       IN /\ posts' = Append(posts, resp)
          /\ error' = outcome
          /\ IF outcome = NoError
             THEN token' = StoredToken(resp.access_token) /\ pc' = "course"
             ELSE token' = token /\ pc' = "failed"
  /\ UNCHANGED <<gets, api, stack, result, rs, mn>>
  /\ UNCHANGED diskVars
  /\ UNCHANGED inputVars
  /\ UNCHANGED runVars

(* ----------------- get_course_videos_urls_by_section ------------------- *)
\* What the code does between two I/O events: the program's next position
\* and the locals it has assigned on the way.
Going(pcNext, apiNext, ids, r, m) ==
  [pc |-> pcNext, api |-> apiNext, stack |-> <<Call(ids, FirstPage, 0)>>,
   rs |-> r, mn |-> m, error |-> NoError]
Stopped(pcNext, r, m, err) ==
  [pc |-> pcNext, api |-> "", stack |-> <<>>, rs |-> r, mn |-> m, error |-> err]

\* Nothing between a dispatcher call and the top of main catches an
\* exception: it ends get_course_videos_urls_by_section without a return
\* value, and main with it.
\* (faulty variant: the failure is swallowed and the weeks resolved so far
\* are returned)
PropagateReturnsPartial(r, err) ==
  IF r.videos_by_section = <<>>
  THEN Stopped("done", r, [NoMain EXCEPT !.returned = TRUE], NoError)
  ELSE Stopped("prepare", r,
               [NoMain EXCEPT !.returned = TRUE, !.videos = r.videos_by_section,
                              !.week_num = 1], NoError)
Propagate(r, err) == Stopped("failed", r, NoMain, err)

\* if only_from_week_number is not None and week_num != only_from_week_number
\* (faulty variant: the filter is not looked at)
SkipsNoWeek(a, week_num) == FALSE
SkipsWeek(a, week_num) == a.week_id # <<>> /\ week_num # a.week_id[1]

\* main: for week_num, video_urls in enumerate(video_urls_by_section, start=1)
\* The loop starts with the first list, or main returns when there is none.
StartMain(r, videos) ==
  LET m == [NoMain EXCEPT !.returned = TRUE, !.videos = videos]
  IN  IF videos = <<>>
      THEN Stopped("done", r, m, NoError)
      ELSE Stopped("prepare", r, [m EXCEPT !.week_num = 1], NoError)

\* for week_num in range(1, len(week_ids) + 1), from week `from` on: skip the
\* weeks the filter drops; at the first retained one ask for its units
\* (all_unit_ids[week_num - 1], an IndexError when the list is too short);
\* after the last week return videos_by_section to main.
WeekLoop(r, a, from) ==
  LET retained == {w \in from..Len(r.week_ids) : ~SkipsWeek(a, w)}
  IN  IF retained = {}
      THEN StartMain(r, r.videos_by_section)
      ELSE LET w == CHOOSE x \in retained : \A y \in retained : x <= y
           IN  IF w > Len(r.all_unit_ids)
               THEN Propagate([r EXCEPT !.week_num = w],
                              [type |-> "IndexError", api |-> "", status |-> 0])
               ELSE Going("units", "units", r.all_unit_ids[w],
                          [r EXCEPT !.week_num = w], NoMain)

\* only_video_blocks / week_videos: the steps whose block has a video, each
\* as StepikVideoUrl(available_qualities=block['video']['urls']).
\* (faulty variant: no step_has_video filter)
WeekVideosKeepsAll(all_steps_data) ==
  [k \in 1..Len(all_steps_data) |->
     [available_qualities |-> all_steps_data[k].block.video.urls]]
WeekVideos(all_steps_data) ==
  LET only_video_blocks == SelectSeq(all_steps_data, LAMBDA sd : sd.block.video.present)
  IN  [k \in 1..Len(only_video_blocks) |->
         [available_qualities |-> only_video_blocks[k].block.video.urls]]

\* videos_by_section.append(week_videos)
\* (faulty variant: a week without videos is dropped)
AppendWeekIfAny(videos_by_section, week_videos) ==
  IF week_videos = <<>> THEN videos_by_section
  ELSE Append(videos_by_section, week_videos)
AppendWeek(videos_by_section, week_videos) == Append(videos_by_section, week_videos)

\* The code that follows a get_resources_list call that returned `value`:
\* the typed getter's list comprehension and the resolver up to its next call.
AfterCall(at, value, r, a) ==
  CASE at = "sections" ->
         WeekLoop([r EXCEPT !.all_unit_ids = [k \in 1..Len(value) |-> value[k].units]],
                  a, 1)
    [] at = "units" ->
         LET lessons == [k \in 1..Len(value) |-> value[k].lesson]
         IN  Going("lessons", "lessons", lessons,
                   [r EXCEPT !.all_lesson_ids = lessons], NoMain)
    [] at = "lessons" ->
         LET steps == Flatten([k \in 1..Len(value) |-> value[k].steps])
         IN  Going("steps", "steps", steps, [r EXCEPT !.all_step_ids = steps], NoMain)
    [] at = "steps" ->
         WeekLoop([r EXCEPT !.videos_by_section = AppendWeek(@, WeekVideos(value))],
                  a, r.week_num + 1)

\* get_list_of_week_ids: the GET of courses/<course_id>, whose status the code
\* does not read.  The body either holds courses[0].sections or, with a
\* status other than 200, is an error document without 'courses' (KeyError).
\* Then get_lists_of_units starts its get_resources_list call.
GetCourse ==
  /\ pc = "course"
  /\ \E status \in {OK} \cup OtherStatuses :
       /\ gets' = Append(gets, [api |-> "courses", ids |-> <<>>, page |-> 0,
                                token |-> token, lo |-> 0, status |-> status,
                                items |-> <<>>, has_next |-> FALSE])
       /\ IF status = OK
          THEN /\ rs' = [NoLocals EXCEPT !.week_ids = SectionIds(course)]
               /\ mn' = mn
               /\ pc' = "sections"
               /\ api' = "sections"
               /\ stack' = <<Call(SectionIds(course), FirstPage, 0)>>
               /\ error' = error
          ELSE LET after == Propagate(rs, [type |-> "KeyError", api |-> "courses",
                                               status |-> status])
               IN /\ pc' = after.pc
                  /\ error' = after.error
                  /\ rs' = after.rs
                  /\ mn' = after.mn
                  /\ UNCHANGED <<api, stack>>
  /\ UNCHANGED <<token, posts, result>>
  /\ UNCHANGED diskVars
  /\ UNCHANGED inputVars
  /\ UNCHANGED runVars

\* One GET of the get_resources_list call in progress (for sections, units,
\* lessons or steps) and the code up to the next I/O event.
GetResources ==
  /\ pc \in Resources
  /\ LET top == stack[Len(stack)]
     IN \E resp \in ServerAnswers(course, srv, api, top.ids, top.page) :
          LET out == HandleResponse(stack, resp)
          IN /\ gets' = Append(gets, Request(api, top, token, resp))
             /\ IF out.raised
                THEN LET after == Propagate(rs, ResourceAcquisitionFailure(api, resp.status))
                     IN /\ pc' = after.pc
                        /\ error' = after.error
                        /\ rs' = after.rs
                        /\ mn' = after.mn
                        /\ stack' = out.stack
                        /\ UNCHANGED <<api, result>>
                ELSE IF ~out.done
                THEN /\ stack' = out.stack
                     /\ UNCHANGED <<pc, api, result, error, rs, mn>>
                ELSE LET after == AfterCall(pc, out.value, rs, args)
                     IN /\ result' = out.value
                        /\ pc' = after.pc
                        /\ api' = after.api
                        /\ stack' = after.stack
                        /\ rs' = after.rs
                        /\ mn' = after.mn
                        /\ error' = after.error
  /\ UNCHANGED <<token, posts>>
  /\ UNCHANGED diskVars
  /\ UNCHANGED inputVars
  /\ UNCHANGED runVars

(* --------------------------------- main -------------------------------- *)
\* The quality loop of main for one video: the first record whose 'quality'
\* is the requested one gives the link; without one msg is set and the link
\* is available_qualities[0]['url'], an IndexError on an empty list.
\* msg: <<>> is None.
FirstMatch(qualities, quality) ==
  LET hits == {k \in 1..Len(qualities) : qualities[k].quality = quality}
  IN  IF hits = {} THEN 0 ELSE CHOOSE k \in hits : \A j \in hits : k <= j
NotAvailableMsg(quality) ==
  <<"The requested quality = ", quality, " is not available!">>
\* (faulty variant: the link of the first record, whatever its quality)
SelectUrlAlwaysFirst(qualities, quality) ==
  LET k == FirstMatch(qualities, quality)
  IN  IF k # 0 THEN [url |-> qualities[1].url, msg |-> <<>>]
      ELSE [url |-> qualities[1].url, msg |-> NotAvailableMsg(quality)]
SelectUrl(qualities, quality) ==
  LET k == FirstMatch(qualities, quality)
  IN  IF k # 0 THEN [url |-> qualities[k].url, msg |-> <<>>]
      ELSE [url |-> qualities[1].url, msg |-> NotAvailableMsg(quality)]
SelectionRaises(qualities, quality) ==
  FirstMatch(qualities, quality) = 0 /\ qualities = <<>>

\* folder_name = os.path.join(args.output_dir, str(args.course_id),
\*                            'week_' + str(week_num)):
\* the folder is named by the position in video_urls_by_section.
FolderOf(week_num) == week_num
\* filename = os.path.join(folder_name, 'Video_' + str(video_num) + '.mp4')
\* (faulty variant: files numbered from 1, as the weeks are)
FileOfOneBased(week_num, video_num) == <<FolderOf(week_num), video_num + 1>>
FileOf(week_num, video_num) == <<FolderOf(week_num), video_num>>

\* The end of one pass of `for week_num, video_urls in enumerate(...)`.
AfterWeek(m) ==
  IF m.week_num < Len(m.videos)
  THEN [pc |-> "prepare",
        mn |-> [m EXCEPT !.week_num = @ + 1, !.url_list_with_q = <<>>, !.video_num = 0]]
  ELSE [pc |-> "done", mn |-> m]
\* The end of one pass of `for video_num, el in enumerate(url_list_with_q)`.
AfterVideo(m) ==
  IF m.video_num + 1 < Len(m.url_list_with_q)
  THEN [pc |-> "download", mn |-> [m EXCEPT !.video_num = @ + 1]]
  ELSE AfterWeek(m)

SystemExit == [type |-> "SystemExit", api |-> "", status |-> 1]

\* One pass of the week loop up to its first transfer: the links of the
\* week's videos are chosen, then the week's folder is made when it is not
\* there (os.makedirs may fail: exit(1)).
PrepareWeek ==
  /\ pc = "prepare"
  /\ LET video_urls == mn.videos[mn.week_num]
         folder == FolderOf(mn.week_num)
     IN IF \E k \in 1..Len(video_urls) :
             SelectionRaises(video_urls[k].available_qualities, args.quality)
        THEN /\ pc' = "failed"
             /\ error' = [type |-> "IndexError", api |-> "", status |-> 0]
             /\ UNCHANGED <<mn, folders, made>>
        ELSE LET url_list == [k \in 1..Len(video_urls) |->
                                SelectUrl(video_urls[k].available_qualities, args.quality)]
                 m == [mn EXCEPT !.url_list_with_q = url_list, !.video_num = 0]
                 go == IF url_list = <<>> THEN AfterWeek(m)
                       ELSE [pc |-> "download", mn |-> m]
             IN \/ /\ folder \in folders
                   /\ pc' = go.pc /\ mn' = go.mn
                   /\ UNCHANGED <<error, folders, made>>
                \/ /\ folder \notin folders
                   /\ folders' = folders \cup {folder}
                   /\ made' = Append(made, folder)
                   /\ pc' = go.pc /\ mn' = go.mn
                   /\ UNCHANGED error
                \/ /\ folder \notin folders
                   /\ pc' = "exited" /\ error' = SystemExit
                   /\ mn' = m
                   /\ UNCHANGED <<folders, made>>
  /\ UNCHANGED <<files, handled>>
  /\ UNCHANGED dispatcherVars
  /\ UNCHANGED resolverVars
  /\ UNCHANGED inputVars
  /\ UNCHANGED runVars

Remove(fs, path) == [q \in (DOMAIN fs) \ {path} |-> fs[q]]
Put(fs, path, content) == [q \in (DOMAIN fs) \cup {path} |->
                             IF q = path THEN content ELSE fs[q]]
Shorts == Len(SelectSeq(handled, LAMBDA h : h.outcome = "short"))
\* if not os.path.isfile(filename)
\* (faulty variant: the file is fetched whether it is there or not)
IsFileNever(fs, path) == FALSE
IsFile(fs, path) == path \in DOMAIN fs

\* `written`: whether urlretrieve had opened the destination file when it
\* ended; `queued`: the videos of the week that come after this one.
\* `had`: what was at the destination before the video was dealt with.
Handled(m, el, outcome, written) ==
  LET path == FileOf(m.week_num, m.video_num)
  IN  [week |-> path[1], num |-> path[2], url |-> el.url,
       msg |-> el.msg, outcome |-> outcome, written |-> written,
       queued |-> Len(m.url_list_with_q) - (m.video_num + 1),
       had |-> IF path \in DOMAIN files THEN files[path] ELSE "absent"]

\* except urllib.error.ContentTooShortError: os.remove(filename)
AfterTooShort(fs, path) == Remove(fs, path)
\* except KeyboardInterrupt: if os.path.isfile(filename): os.remove(filename)
\* (faulty variant: no os.remove)
AfterInterruptKeepsFile(fs, path) == fs
AfterInterrupt(fs, path) == IF path \in DOMAIN fs THEN Remove(fs, path) ELSE fs

\* One pass of the video loop: the file is skipped when it exists; otherwise
\* urllib.request.urlretrieve runs and
\*   returns                        -> the file is complete;
\*   raises ContentTooShortError    -> the file it wrote is removed;
\*   raises KeyboardInterrupt       -> the file is removed if there, exit(1);
\*   raises anything else (URLError, HTTPError, a socket error): no handler,
\*     the run ends with what urlretrieve left on disk.
Download ==
  /\ pc = "download"
  /\ LET el == mn.url_list_with_q[mn.video_num + 1]
         path == FileOf(mn.week_num, mn.video_num)
         go == AfterVideo(mn)
     IN IF IsFile(files, path)
        THEN /\ handled' = Append(handled, Handled(mn, el, "skipped", FALSE))
             /\ pc' = go.pc /\ mn' = go.mn
             /\ UNCHANGED <<files, error>>
        ELSE \/ /\ handled' = Append(handled, Handled(mn, el, "done", TRUE))
                /\ files' = Put(files, path, "full")
                /\ pc' = go.pc /\ mn' = go.mn
                /\ UNCHANGED error
             \/ /\ Shorts < MaxShort
                /\ handled' = Append(handled, Handled(mn, el, "short", TRUE))
                /\ files' = AfterTooShort(Put(files, path, "partial"), path)
                /\ pc' = go.pc /\ mn' = go.mn
                /\ UNCHANGED error
             \/ /\ \E written \in BOOLEAN :
                     /\ handled' = Append(handled, Handled(mn, el, "interrupted", written))
                     /\ files' = AfterInterrupt(IF written THEN Put(files, path, "partial")
                                                ELSE files, path)
                /\ pc' = "exited" /\ error' = SystemExit
                /\ UNCHANGED mn
             \/ /\ \E written \in BOOLEAN :
                     /\ handled' = Append(handled, Handled(mn, el, "error", written))
                     /\ files' = IF written THEN Put(files, path, "partial") ELSE files
                /\ pc' = "failed"
                /\ error' = [type |-> "URLError", api |-> "", status |-> 0]
                /\ UNCHANGED mn
  /\ UNCHANGED <<folders, made>>
  /\ UNCHANGED dispatcherVars
  /\ UNCHANGED resolverVars
  /\ UNCHANGED inputVars
  /\ UNCHANGED runVars

(* --------------------------------- Spec -------------------------------- *)
Courses ==
  {[nSections |-> n, videoPos |-> v, emptyUrls |-> e] :
     n \in 0..MaxSections, v \in SUBSET {1, 2}, e \in BOOLEAN}
\* One page or two for the longest id list; no split, or a split of every
\* list of two ids or more.
Servers ==
  {[pageSize |-> 3, limit |-> 3], [pageSize |-> 2, limit |-> 3],
   [pageSize |-> 3, limit |-> 1]}
\* -w is any integer or absent; -q is one of choices=['360', '720', '1080'].
Arguments(c) ==
  {[week_id |-> w, quality |-> q] :
     w \in {<<>>} \cup {<<n>> : n \in 1..(c.nSections + 1)},
     q \in {"360", "720", "1080"}}
\* The output directory before the run: empty, or week_1 with one video file
\* of an earlier run.
Disks ==
  {[folders |-> {}, files |-> <<>>]}
  \cup {[folders |-> {1}, files |-> Put(<<>>, <<1, n>>, "stale")] : n \in 0..1}

Init ==
  /\ course \in Courses
  /\ srv \in Servers
  /\ args \in Arguments(course)
  /\ \E d \in Disks : folders = d.folders /\ files = d.files
  /\ pc = "start"
  /\ token = None
  /\ posts = <<>>
  /\ gets = <<>>
  /\ api = ""
  /\ stack = <<>>
  /\ result = <<>>
  /\ error = NoError
  /\ rs = NoLocals
  /\ mn = NoMain
  /\ made = <<>>
  /\ handled = <<>>
  /\ run = 1
  /\ before = NoBefore

Next == Construct \/ GetCourse \/ GetResources \/ PrepareWeek \/ Download

Spec == Init /\ [][Next]_vars

(* ------------------------------ SpecSelect ----------------------------- *)
\* main from the week loop on (downloader.py:117), for one resolved week of
\* one video whose block.video.urls is any list of up to MaxQualities records
\* over the three labels; the url of a record is named by its position.
Labels == {"360", "720", "1080"}
QualityLists ==
  UNION {[1..n -> Labels] : n \in 0..MaxQualities}
QualityRecords(labels) ==
  [k \in 1..Len(labels) |-> [quality |-> labels[k], url |-> <<1, k>>]]

InitSelect ==
  /\ course = [nSections |-> 1, videoPos |-> {1}, emptyUrls |-> FALSE]
  /\ srv = [pageSize |-> 1, limit |-> 1]
  /\ \E q \in Labels : args = [week_id |-> <<>>, quality |-> q]
  /\ folders = {}
  /\ files = <<>>
  /\ pc = "prepare"
  /\ token \in Tokens
  /\ posts = <<[status |-> OK, access_token |-> token]>>
  /\ gets = <<>>
  /\ api = ""
  /\ stack = <<>>
  /\ result = <<>>
  /\ error = NoError
  /\ rs = NoLocals
  /\ \E labels \in QualityLists :
       mn = [NoMain EXCEPT
               !.returned = TRUE,
               !.videos = << <<[available_qualities |-> QualityRecords(labels)]>> >>,
               !.week_num = 1]
  /\ made = <<>>
  /\ handled = <<>>
  /\ run = 1
  /\ before = NoBefore

NextSelect == PrepareWeek \/ Download

SpecSelect == InitSelect /\ [][NextSelect]_vars

(* ------------------------------ SpecRerun ------------------------------ *)
\* if __name__ == "__main__": main()   -- the program is started again with
\* the same command line, against the same server and output directory, after
\* a first invocation that ran to its end.  Nothing but the disk is carried
\* over: the token, the resolved lists and the locals are those of a new
\* process.
Restart ==
  /\ pc = "done"
  /\ run = 1
  /\ run' = 2
  /\ before' = [over |-> TRUE,
                complete |-> \A i \in 1..Len(handled) :
                               handled[i].outcome \in {"done", "skipped"},
                handled |-> handled, folders |-> folders, files |-> files]
  /\ pc' = "start"
  /\ token' = None
  /\ posts' = <<>>
  /\ gets' = <<>>
  /\ api' = ""
  /\ stack' = <<>>
  /\ result' = <<>>
  /\ error' = NoError
  /\ rs' = NoLocals
  /\ mn' = NoMain
  /\ made' = <<>>
  /\ handled' = <<>>
  /\ UNCHANGED <<folders, files>>
  /\ UNCHANGED inputVars

NextRerun == Construct \/ GetCourse \/ GetResources \/ PrepareWeek \/ Download \/ Restart

SpecRerun == Init /\ [][NextRerun]_vars

(* ------------------- properties of get_resources_list ------------------ *)
\* The GETs answered 200, in the order they were made.
Answered == SelectSeq(gets, LAMBDA g : g.status = OK)
\* The GETs answered 431.
Refused == SelectSeq(gets, LAMBDA g : g.status = HeaderTooLarge)
\* The id list of the outermost call.
OriginalIds == gets[1].ids
IsFatal(status) == status \notin {OK, HeaderTooLarge}

\* C1: whatever GETs were answered 431, a get_resources_list call that returns
\* returns the lists of the GETs answered 200 concatenated, each asked-for
\* batch being a slice of the original id list and the slices taken left to
\* right (left half before right half at every split).
C1_SplitResultIsConcatenation ==
  pc = "returned" =>
    /\ result = Flatten([i \in 1..Len(Answered) |-> Answered[i].items])
    /\ \A i \in 1..Len(gets) :
         gets[i].ids = SubSeq(OriginalIds, gets[i].lo + 1, gets[i].lo + Len(gets[i].ids))
    /\ \A i, j \in 1..Len(Answered) : i < j => Answered[i].lo <= Answered[j].lo

\* C1's case: a call that returned after a split inside a split, with
\* resources from at least two different answers.
C1_Witness ==
  /\ pc = "returned"
  /\ Len(Refused) >= 2
  /\ \E i, j \in 1..Len(Refused) : Len(Refused[i].ids) > Len(Refused[j].ids)
  /\ \E i, j \in 1..Len(Answered) :
       i < j /\ Answered[i].items # <<>> /\ Answered[j].items # <<>>
            /\ Answered[i].lo < Answered[j].lo

\* C2: after a 431 each of the two recursive fetches is made on an id list
\* strictly shorter than the list that was split, for every list length.
C2_HalvesStrictlyShorter ==
  \A i \in 1..(Len(stack) - 1) :
    stack[i].at \in {"left", "right"} => Len(stack[i + 1].ids) < Len(stack[i].ids)

\* C3: a status other than 200 and 431 ends the call at once: the GET that got
\* it is the last GET, the call fails with ResourceAcquisitionFailure naming
\* the resource type and the status, and no list is returned.
C3_FatalStatusEndsCall ==
  \A i \in 1..Len(gets) :
    IsFatal(gets[i].status) =>
      /\ i = Len(gets)
      /\ pc = "failed"
      /\ error = [type |-> "ResourceAcquisitionFailure", api |-> gets[i].api,
                  status |-> gets[i].status]
      /\ stack = <<>>
      /\ result = <<>>

\* C3's case: the fatal status arrives below a split and after a page that had
\* already delivered resources.
C3_Witness ==
  /\ pc = "failed"
  /\ Len(gets) >= 3
  /\ IsFatal(gets[Len(gets)].status)
  /\ Len(Refused) >= 1
  /\ \E i \in 1..Len(Answered) : Answered[i].items # <<>> /\ Answered[i].has_next

(* ------------------------ properties of a whole run -------------------- *)
\* The course read straight from the tree, without the dispatcher: the steps
\* of the i-th section in unit order, then step order within each lesson.
StepsOfSection(i) ==
  LET units == UnitsOfSection(10 * i)
  IN  Flatten([j \in 1..Len(units) |-> StepsOfLesson(LessonOfUnit(units[j]))])
\* The video blocks of the i-th section's steps that carry a video, in order.
ExpectedWeek(c, i) ==
  LET carrying == SelectSeq(StepsOfSection(i), LAMBDA st : HasVideo(c, st))
  IN  [k \in 1..Len(carrying) |-> [available_qualities |-> UrlsOfStep(c, carrying[k])]]
\* The weeks the filter retains, in order.
RetainedWeeks(c, a) ==
  IF a.week_id = <<>> THEN [i \in 1..c.nSections |-> i]
  ELSE IF a.week_id[1] \in 1..c.nSections THEN a.week_id ELSE <<>>
\* The section (week) a video url belongs to: urls are named <<step, k>>.
SectionOfUrl(url) == url[1] \div 10000
\* A GET of the hierarchy resolution that failed.
FailedGets ==
  {i \in 1..Len(gets) : gets[i].status \notin {OK, HeaderTooLarge}}

\* C4: when a request of the hierarchy resolution fails (course, sections,
\* units, lessons or steps, in any week), get_course_videos_urls_by_section
\* returns nothing and the run ends there: no folder is made and no video is
\* dealt with, also not for the weeks resolved before the failure.
C4_FailedResolutionProducesNothing ==
  FailedGets # {} =>
    /\ pc = "failed"
    /\ error.type \in {"ResourceAcquisitionFailure", "KeyError"}
    /\ ~mn.returned
    /\ mn.videos = <<>>
    /\ made = <<>>
    /\ handled = <<>>
    /\ \A path \in DOMAIN files : files[path] = "stale"

\* C4's case: the failure comes in the second week, after the first week was
\* resolved with videos in it.
C4_Witness ==
  /\ FailedGets # {}
  /\ pc = "failed"
  /\ rs.week_num = 2
  /\ Len(rs.videos_by_section) = 1
  /\ rs.videos_by_section[1] # <<>>

\* C5: the constructor makes exactly one token POST.  On 200 the token is the
\* access_token of the answer; on 401 it fails with WrongCredentials; on any
\* other status with AuthenticationFailure carrying the status.  There is no
\* second POST, and after a failure no authorized GET.
C5_OneTokenExchange ==
  /\ Len(posts) <= 1
  /\ pc # "start" => Len(posts) = 1
  /\ gets # <<>> => Len(posts) = 1 /\ posts[1].status = OK
  /\ Len(posts) = 1 =>
       CASE posts[1].status = OK ->
              /\ token = posts[1].access_token
              /\ error.type \notin {"WrongCredentials", "AuthenticationFailure"}
         [] posts[1].status = Unauthorized ->
              /\ pc = "failed"
              /\ error = [type |-> "WrongCredentials", api |-> "token",
                          status |-> Unauthorized]
              /\ token = None
              /\ gets = <<>>
         [] OTHER ->
              /\ pc = "failed"
              /\ error = [type |-> "AuthenticationFailure", api |-> "token",
                          status |-> posts[1].status]
              /\ token = None
              /\ gets = <<>>

\* C5's case: the token endpoint answered 401.
C5_Witness ==
  /\ Len(posts) = 1
  /\ posts[1].status = Unauthorized
  /\ pc = "failed"
  /\ error.type = "WrongCredentials"

\* C6: every video is stored under the folder week_N, N being the 1-based
\* position of the video's section in the course's section list, with and
\* without a week filter.
C6_FolderIsSectionPosition ==
  \A i \in 1..Len(handled) : handled[i].week = SectionOfUrl(handled[i].url)

\* C7: without a week filter, when no request fails, the resolver returns
\* exactly one list for each of the course's k sections, the i-th list holding
\* the videos of the i-th section and nothing else; a section without a
\* video-bearing step has an empty list at its position.
C7_OneListPerSection ==
  (mn.returned /\ args.week_id = <<>>) =>
    /\ Len(mn.videos) = course.nSections
    /\ \A i \in 1..Len(mn.videos) :
         /\ Len(mn.videos[i]) = Len(ExpectedWeek(course, i))
         /\ \A k \in 1..Len(mn.videos[i]) :
              \A q \in 1..Len(mn.videos[i][k].available_qualities) :
                SectionOfUrl(mn.videos[i][k].available_qualities[q].url) = i

\* C7's case: two sections, the first with a video, the second with none.
C7_Witness ==
  /\ mn.returned
  /\ args.week_id = <<>>
  /\ course.nSections = 2
  /\ Len(mn.videos) = 2
  /\ mn.videos[1] # <<>>
  /\ mn.videos[2] = <<>>

\* C8: the video list of every retained week is exactly the video blocks of
\* that section's steps that carry a video, in unit order and then step
\* order; a step without a video adds nothing and moves nothing.
C8_WeekListIsVideoStepsInOrder ==
  mn.returned =>
    LET weeks == RetainedWeeks(course, args)
    IN /\ Len(mn.videos) = Len(weeks)
       /\ \A p \in 1..Len(weeks) : mn.videos[p] = ExpectedWeek(course, weeks[p])

\* C8's case: sections [10, 20]; week 1 has steps 10101, 10102, 10201 of two
\* units, the middle one without a video; each week yields its videos.
C8_Witness ==
  /\ mn.returned
  /\ course.nSections = 2
  /\ course.videoPos = {1}
  /\ args.week_id = <<>>
  /\ Len(mn.videos) = 2
  /\ Len(mn.videos[1]) = 2
  /\ mn.videos[1][1].available_qualities[1].url[1] = 10101
  /\ mn.videos[1][2].available_qualities[1].url[1] = 10201
  /\ Len(mn.videos[2]) = 1

\* C9: a transfer that fails, in whatever way, has its partial file deleted
\* and does not end the run.
C9_TransferFailureIsPerVideo ==
  \A i \in 1..Len(handled) :
    handled[i].outcome \in {"short", "error"} =>
      /\ <<handled[i].week, handled[i].num>> \notin DOMAIN files
      /\ pc # "failed"

\* C10: a KeyboardInterrupt during a transfer removes the file of that video
\* if it is there and ends the run: the interrupted video is the last one
\* dealt with, and no folder of a later week is made.
C10_InterruptCleansUpAndAborts ==
  \A i \in 1..Len(handled) :
    handled[i].outcome = "interrupted" =>
      /\ i = Len(handled)
      /\ pc = "exited"
      /\ error = SystemExit
      /\ <<handled[i].week, handled[i].num>> \notin DOMAIN files
      /\ \A f \in 1..Len(made) : made[f] <= handled[i].week
      /\ mn.week_num = handled[i].week
      /\ mn.video_num = handled[i].num

\* C10's case: the interrupt comes when the file is partly written, with
\* another video of the week and another week still to do.
C10_Witness ==
  /\ pc = "exited"
  /\ handled # <<>>
  /\ handled[Len(handled)].outcome = "interrupted"
  /\ handled[Len(handled)].written
  /\ handled[Len(handled)].queued >= 1
  /\ mn.week_num < Len(mn.videos)
  /\ mn.videos[mn.week_num + 1] # <<>>

\* C11: a video whose quality list is empty fails with an explicit
\* NoQualityAvailable error, not with an index fault, and only that video is
\* lost: the run goes on with the other videos of the week and the later weeks.
C11_EmptyQualityListIsPerVideo ==
  (/\ mn.returned
   /\ mn.week_num >= 1
   /\ \E k \in 1..Len(mn.videos[mn.week_num]) :
        mn.videos[mn.week_num][k].available_qualities = <<>>)
  => /\ error.type # "IndexError"
     /\ pc # "failed"

C12_WitnessExact ==
  /\ mn.week_num = 1
  /\ mn.videos[1][1].available_qualities = QualityRecords(<<"360", "720">>)
  /\ args.quality = "720"
  /\ Len(handled) = 1
  /\ handled[1].url = <<1, 2>>
  /\ handled[1].msg = <<>>
  /\ handled[1].outcome = "done"

\* C13: a video whose destination file exists is not fetched and the file
\* stays as it was; a video is fetched only when its destination is absent;
\* and an invocation that follows one in which every video was fetched or
\* skipped fetches nothing, makes no folder and leaves every file as it was.
C13_ExistingFileIsSkipped ==
  /\ \A i \in 1..Len(handled) :
       LET h == handled[i]
           path == <<h.week, h.num>>
       IN  /\ h.had # "absent" =>
                /\ h.outcome = "skipped"
                /\ ~h.written
                /\ path \in DOMAIN files
                /\ files[path] = h.had
           /\ h.outcome # "skipped" => h.had = "absent"
  /\ (run = 2 /\ before.complete) =>
        /\ \A i \in 1..Len(handled) : handled[i].outcome = "skipped"
        /\ files = before.files
        /\ folders = before.folders
        /\ made = <<>>

\* A second invocation that ran to its end over two weeks, after a first one
\* that fetched at least two videos and skipped a stale file.
C13_Witness ==
  /\ run = 2
  /\ before.complete
  /\ pc = "done"
  /\ Len(handled) >= 3
  /\ Len(handled) = Len(before.handled)
  /\ \E i \in 1..Len(before.handled) : before.handled[i].had = "stale"
  /\ Cardinality({i \in 1..Len(before.handled) :
                    before.handled[i].outcome = "done"}) >= 2
  /\ \A i \in 1..Len(handled) : handled[i].had \in {"stale", "full"}

\* C14: as long as every GET of a call is answered 200, the GETs ask for pages
\* 1, 2, 3, ... of the same id list; every answer but the last had has_next
\* set; the call goes on to the next page exactly when the last answer had
\* has_next set, and returns otherwise, with the lists of all the pages
\* concatenated in page order.
C14_PagesInOrderUntilNoNext ==
  (gets # <<>> /\ \A i \in 1..Len(gets) : gets[i].status = OK) =>
    /\ \A i \in 1..Len(gets) : /\ gets[i].page = i
                               /\ gets[i].ids = OriginalIds
                               /\ gets[i].api = api
    /\ \A i \in 1..(Len(gets) - 1) : gets[i].has_next
    /\ IF gets[Len(gets)].has_next
       THEN /\ pc = "fetch"
            /\ stack[Len(stack)].at = "get"
            /\ stack[Len(stack)].page = Len(gets) + 1
            /\ stack[Len(stack)].ids = OriginalIds
       ELSE /\ pc = "returned"
            /\ result = Flatten([i \in 1..Len(gets) |-> gets[i].items])

\* has_next true, true, false: three GETs, the three lists in page order.
C14_Witness ==
  /\ pc = "returned"
  /\ Len(gets) = 3
  /\ OriginalIds # <<>>
  /\ \A i \in 1..3 : gets[i].status = OK /\ gets[i].items # <<>>
  /\ gets[1].has_next /\ gets[2].has_next /\ ~gets[3].has_next
  /\ result = gets[1].items \o gets[2].items \o gets[3].items

\* C15: a first GET for a non-empty id list answered 200 without has_next is
\* the only GET of the call, and the call returns the list of that answer as
\* it came: the same resources in the same order, each once.
C15_SingleAnswerReturnedAsIs ==
  (/\ gets # <<>>
   /\ OriginalIds # <<>>
   /\ gets[1].status = OK
   /\ ~gets[1].has_next) =>
    /\ Len(gets) = 1
    /\ pc = "returned"
    /\ stack = <<>>
    /\ Len(result) = Len(gets[1].items)
    /\ \A k \in 1..Len(result) : result[k] = gets[1].items[k]

\* One GET for the longest id list, answered with a list of MaxItems
\* resources.
C15_Witness ==
  /\ pc = "returned"
  /\ Len(gets) = 1
  /\ Len(OriginalIds) = MaxIds
  /\ gets[1].status = OK
  /\ ~gets[1].has_next
  /\ Len(result) = MaxItems
  /\ result = gets[1].items

\* The week (position of the section in the course) a unit, lesson or step
\* id of the course belongs to.
WeekOfId(resource, id) ==
  CASE resource = "units"   -> id \div 100
    [] resource = "lessons" -> id \div 1000
    [] resource = "steps"   -> id \div 10000
    [] OTHER                -> 0

\* C16: with a week filter w, every GET of the run is the course GET, a
\* sections GET over section ids of the course (the first one over all of
\* them), or a units, lessons or steps GET whose ids all belong to week w, w
\* being a week of the course; with w outside 1..number of sections there is
\* no units, lessons or steps GET and the resolved list is empty.
C16_FilterLimitsRequests ==
  args.week_id # <<>> =>
    LET w == args.week_id[1]
    IN  /\ \A i \in 1..Len(gets) :
             LET g == gets[i]
             IN  \/ g.api = "courses" /\ i = 1
                 \/ /\ g.api = "sections"
                    /\ i >= 2
                    /\ i = 2 => g.ids = SectionIds(course)
                    /\ \A k \in 1..Len(g.ids) :
                         \E n \in 1..course.nSections : g.ids[k] = SectionIds(course)[n]
                 \/ /\ g.api \in {"units", "lessons", "steps"}
                    /\ w \in 1..course.nSections
                    /\ \A k \in 1..Len(g.ids) : WeekOfId(g.api, g.ids[k]) = w
        /\ (w \notin 1..course.nSections /\ mn.returned) => mn.videos = <<>>

\* Week 2 of a course of two sections asked for: the run resolved it down to
\* its steps and went on to the downloads.
C16_Witness ==
  /\ args.week_id = <<2>>
  /\ course.nSections = 2
  /\ mn.returned
  /\ \E i, j, k \in 1..Len(gets) :
       /\ gets[i].api = "units" /\ gets[i].ids # <<>>
       /\ gets[j].api = "lessons" /\ gets[j].ids # <<>>
       /\ gets[k].api = "steps" /\ gets[k].ids # <<>>
  /\ handled # <<>>

\* A week beyond the last one asked for: course and sections are fetched,
\* nothing else, and there is nothing to download.
C16_WitnessOutside ==
  /\ args.week_id = <<3>>
  /\ course.nSections = 2
  /\ pc = "done"
  /\ mn.videos = <<>>
  /\ Len(gets) >= 2
  /\ \A i \in 1..Len(gets) : gets[i].api \in {"courses", "sections"}

\* C17: the file Video_j of a week is given to the video at zero-based
\* position j of the week's resolved list: the link fetched into it (or
\* skipped for it) is one of that video's links; and the videos of a week are
\* dealt with in positions 0, 1, 2, ... whatever the outcome of the earlier
\* ones.
C17_FileIndexIsListPosition ==
  /\ \A i \in 1..Len(handled) :
       LET h == handled[i]
       IN  /\ h.week \in 1..Len(mn.videos)
           /\ h.num + 1 \in 1..Len(mn.videos[h.week])
           /\ \E k \in 1..Len(mn.videos[h.week][h.num + 1].available_qualities) :
                h.url = mn.videos[h.week][h.num + 1].available_qualities[k].url
           /\ h.num = IF i > 1 /\ handled[i - 1].week = h.week
                      THEN handled[i - 1].num + 1 ELSE 0
           /\ h.outcome = "done" =>
                <<h.week, h.num>> \in DOMAIN files /\ files[<<h.week, h.num>>] = "full"

\* Three videos of one week: the first transfer came short, the second file
\* was there already, the third video is fetched into Video_2 with the
\* fallback message.
C17_Witness ==
  /\ Len(handled) >= 3
  /\ \A i \in 1..3 : handled[i].week = 1 /\ handled[i].num = i - 1
  /\ handled[1].outcome = "short"
  /\ handled[2].outcome = "skipped"
  /\ handled[3].outcome = "done"
  /\ handled[3].msg # <<>>
  /\ handled[3].url = <<10201, 1>>

\* The number of splits the GET about to be made (or just answered) is nested
\* in.
SplitDepth == Cardinality({i \in 1..Len(stack) : stack[i].at \in {"left", "right"}})
RECURSIVE Pow2(_)
Pow2(d) == IF d = 0 THEN 1 ELSE 2 * Pow2(d - 1)
\* No list of fewer than two ids was answered 431.
SingleIdsAccepted == \A i \in 1..Len(Refused) : Len(Refused[i].ids) >= 2

\* C18: for a call on n >= 1 ids against a server that answers no list of
\* fewer than two ids with 431, the splits are nested at most log2(n) deep:
\* 2^depth <= n.
C18_SplitDepthAtMostLog2 ==
  (gets # <<>> /\ Len(OriginalIds) >= 1 /\ SingleIdsAccepted) =>
    Pow2(SplitDepth) <= Len(OriginalIds)

\* C18 amended: under the same conditions the splits are nested at most
\* ceil(log2(n)) deep: 2^(depth - 1) < n for every depth >= 1; and the list of
\* a GET nested d splits deep has at most ceil(n / 2^d) ids.
C18_SplitDepthAtMostCeilLog2 ==
  (gets # <<>> /\ Len(OriginalIds) >= 1 /\ SingleIdsAccepted) =>
    /\ SplitDepth >= 1 => Pow2(SplitDepth - 1) < Len(OriginalIds)
    /\ stack # <<>> =>
         (Len(stack[Len(stack)].ids) - 1) * Pow2(SplitDepth) < Len(OriginalIds)

\* Three ids: the list is refused, then its right half of two ids is refused,
\* and a GET for one id is made two splits deep (log2(3) < 2).
C18_Witness ==
  /\ gets # <<>>
  /\ Len(OriginalIds) = 3
  /\ SingleIdsAccepted
  /\ SplitDepth = 2
  /\ pc = "fetch"
  /\ Len(stack[Len(stack)].ids) = 1

\* The token is the one of the exchange and every GET made so far carried it.
TokenIsTheExchanged ==
  /\ token # None => /\ Len(posts) = 1
                     /\ posts[1].status = OK
                     /\ token = posts[1].access_token
  /\ \A i \in 1..Len(gets) : /\ token # None
                             /\ gets[i].token = token

\* C19: the token is set once, by the constructor, from the answer of the one
\* successful exchange, and is never assigned again; every authorized GET of
\* the run comes after that exchange and carries that token.
C19_TokenSetOnce ==
  /\ []TokenIsTheExchanged
  /\ [][/\ token # None => token' = token
        /\ token' # token => pc = "start"
        /\ gets' # gets => token # None /\ token' = token]_vars

\* A run that came to its end after GETs of all five kinds, a 431 and a
\* second page among them.
C19_Witness ==
  /\ pc = "done"
  /\ handled # <<>>
  /\ token \in Tokens
  /\ \A r \in {"courses", "sections", "units", "lessons", "steps"} :
       \E i \in 1..Len(gets) : gets[i].api = r /\ gets[i].token = token
  /\ \E i \in 1..Len(gets) : gets[i].status = HeaderTooLarge \/ gets[i].page = 2

\* C20: a GET answered 431 at page p is followed by a GET for the left half of
\* its id list at page 1, and the call for the right half starts at page 1
\* as well (the frame above a split frame is a call for the matching half at
\* page 1); a page p > 1 is only asked for after page p - 1 of the same list
\* was answered 200 with has_next; and when the call returns, the result is
\* the lists of all answers in the order of the GETs, pages 1..p-1 of a list
\* refused at page p being the p - 1 GETs right before the refused one, hence
\* ahead of everything its halves delivered.
C20_HalvesRestartAtFirstPage ==
  /\ \A i \in 1..(Len(gets) - 1) :
       gets[i].status = HeaderTooLarge =>
         /\ gets[i + 1].page = FirstPage
         /\ gets[i + 1].ids = LeftHalf(gets[i].ids)
         /\ gets[i + 1].lo = gets[i].lo
  /\ \A i \in 1..(Len(stack) - 1) :
       /\ stack[i].at = "left" =>
            stack[i + 1].page = FirstPage /\ stack[i + 1].ids = LeftHalf(stack[i].ids)
       /\ stack[i].at = "right" =>
            stack[i + 1].page = FirstPage /\ stack[i + 1].ids = RightHalf(stack[i].ids)
  /\ \A i \in 1..Len(gets) :
       gets[i].page > FirstPage =>
         /\ i > 1
         /\ gets[i - 1].status = OK
         /\ gets[i - 1].has_next
         /\ gets[i - 1].page = gets[i].page - 1
         /\ gets[i - 1].ids = gets[i].ids
         /\ gets[i - 1].lo = gets[i].lo
  /\ pc = "returned" =>
       /\ result = Flatten([k \in 1..Len(gets) |-> gets[k].items])
       /\ \A i \in 1..Len(gets) :
            (gets[i].status = HeaderTooLarge /\ gets[i].page > FirstPage) =>
              LET p == gets[i].page
              IN  /\ i >= p
                  /\ \A k \in 1..(p - 1) :
                       /\ gets[i - p + k].status = OK
                       /\ gets[i - p + k].page = k
                       /\ gets[i - p + k].ids = gets[i].ids
                       /\ gets[i - p + k].lo = gets[i].lo
                  /\ \A n \in (i + 1)..Len(gets) : gets[n].lo >= gets[i].lo

\* [1, 2]: page 1 is answered 200 with has_next, page 2 is answered 431, [1]
\* and [2] are then asked for at page 1, and the call returns page 1's list
\* followed by the halves' lists.
C20_Witness ==
  /\ pc = "returned"
  /\ Len(gets) = 4
  /\ gets[1].ids = <<1, 2>> /\ gets[1].status = OK /\ gets[1].has_next
  /\ gets[1].items # <<>>
  /\ gets[2].ids = <<1, 2>> /\ gets[2].page = 2 /\ gets[2].status = HeaderTooLarge
  /\ gets[3].ids = <<1>> /\ gets[3].page = FirstPage /\ gets[3].items # <<>>
  /\ gets[4].ids = <<2>> /\ gets[4].page = FirstPage /\ gets[4].items # <<>>
  /\ result = gets[1].items \o gets[3].items \o gets[4].items

====
